---- MODULE Spec2Model ----
(***************************************************************************)
(* Model of scripts/backup_database.py: the backup directory, the manifest, *)
(* the target databases and the operations backup_local_db,                 *)
(* backup_production_db, restore_from_backup, verify_backup and             *)
(* cleanup_old_backups.                                                     *)
(*                                                                          *)
(* Time is counted in hours since 2024-01-01 00:00 (a Monday).  A file name *)
(* is a record [kind, ts, sfx] standing for peptide_<kind>_<ts>.<sfx...>;   *)
(* kind "other" stands for a file whose name does not start with peptide_.  *)
(* The content of a file is a record [fmt, text, trunc]: text is a sequence *)
(* of lines, fmt "gz" says the bytes are the gzip framing of text, fmt      *)
(* "plain" says the bytes are text itself, trunc says a gzip stream lacks   *)
(* its end-of-stream marker.                                                *)
(***************************************************************************)
EXTENDS Integers, Sequences, FiniteSets, TLC

VARIABLES
    now,        \* datetime.now(), in hours
    files,      \* BACKUP_DIR: name -> [data, mtime, readable]
    manifest,   \* MANIFEST_FILE
    db,         \* the target databases of restore: target -> what psql did to it
    blobs,      \* the Azure container peptide-backups: blob name -> data
    last,       \* the most recent call and the result it returned
    proc        \* the invocations that run side by side: where each one stands

vars == <<now, files, manifest, db, blobs, last, proc>>

----------------------------------------------------------------------------
(* Bounds of the model *)

\* the clock never passes StartTime + MaxElapsed hours
MaxElapsed == 30
\* at most this many files are in the directory at the start
MaxSeed == 1
\* a backup starts only while the manifest holds fewer records than this
MaxBackups == 2
\* a call that may add a file starts only while the directory holds fewer files
MaxFiles == 2
\* main is run at most MaxRuns times in a row
MaxRuns == 2

----------------------------------------------------------------------------
(* Calendar: datetime.fromtimestamp(mtime).day and .weekday() *)

HoursPerDay == 24
DaysPerWeek == 7
\* 2024, the year the clock of the model runs in
MonthLen == <<31, 29, 31, 30, 31, 30, 31, 31, 30, 31, 30, 31>>

DayOf(t) == t \div HoursPerDay

\* datetime.weekday(): Monday is 0, Sunday is 6; day 0 is a Monday
Weekday(t) == DayOf(t) % DaysPerWeek

RECURSIVE DayInMonth(_, _)
DayInMonth(d, m) ==
    IF d < MonthLen[m] THEN d + 1
    ELSE DayInMonth(d - MonthLen[m], (m % Len(MonthLen)) + 1)

\* datetime.day: 1..31
DayOfMonth(t) == DayInMonth(DayOf(t), 1)

\* a faulty variant of AgeDays: the difference of the two calendar dates
AgeDays_dates(t, mtime) == DayOf(t) - DayOf(mtime)

\* (now - mtime).days: timedelta.days is the floor of the difference in days
AgeDays(t, mtime) == (t - mtime) \div HoursPerDay

----------------------------------------------------------------------------
(* Configuration *)

\* RETENTION
RETENTION == [daily |-> 14, weekly |-> 8, monthly |-> 6]

Targets == {"local", "production"}

----------------------------------------------------------------------------
(* File names *)

GzSfx == <<"sql", "gz">>
SqlSfx == <<"sql">>

Name(kind, ts, sfx) == [kind |-> kind, ts |-> ts, sfx |-> sfx]

\* str(path).endswith(".gz")
EndsWithGz(n) == Len(n.sfx) > 0 /\ n.sfx[Len(n.sfx)] = "gz"

\* path.with_suffix(""): the name without its last suffix
WithoutSuffix(n) ==
    IF Len(n.sfx) = 0 THEN n
    ELSE [n EXCEPT !.sfx = SubSeq(n.sfx, 1, Len(n.sfx) - 1)]

\* BACKUP_DIR.glob("peptide_*.sql.gz")
MatchesGlob(n) == n.kind # "other" /\ n.sfx = GzSfx

\* BACKUP_DIR.glob(f"peptide_{backup_type}_*.sql.gz")
MatchesType(n, backup_type) == n.kind = backup_type /\ n.sfx = GzSfx

GlobBackups(fs) == {n \in DOMAIN fs : MatchesGlob(n)}

\* the order of sorted(paths): by the name's text, so by kind, then timestamp
KindRank(k) == CASE k = "local" -> 1 [] k = "production" -> 2 [] OTHER -> 3

NameBefore(a, b) ==
    \/ KindRank(a.kind) < KindRank(b.kind)
    \/ KindRank(a.kind) = KindRank(b.kind) /\ a.ts < b.ts
    \/ KindRank(a.kind) = KindRank(b.kind) /\ a.ts = b.ts /\ Len(a.sfx) < Len(b.sfx)

RECURSIVE Sorted(_)
Sorted(S) ==
    IF S = {} THEN <<>>
    ELSE LET first == CHOOSE a \in S : \A b \in S \ {a} : NameBefore(a, b)
         IN  <<first>> \o Sorted(S \ {first})

----------------------------------------------------------------------------
(* File contents *)

\* the keywords verify_backup looks for
Markers == {"PostgreSQL", "CREATE TABLE", "INSERT INTO", "pg_dump",
            "SET statement_timeout"}

Plain(text) == [fmt |-> "plain", text |-> text, trunc |-> FALSE]

\* gzip.open(gz, "wb") + shutil.copyfileobj: the gzip framing of text
Gzip(text) == [fmt |-> "gz", text |-> text, trunc |-> FALSE]

\* path.stat().st_size: a gzip stream is never empty, its header alone has bytes
Size(data) == Len(data.text) + (IF data.fmt = "gz" THEN 1 ELSE 0)

\* _sha256: an ideal hash, one digest per content
Sha256(data) == <<"sha256", data>>

File(data, mtime) == [data |-> data, mtime |-> mtime, readable |-> TRUE]

Put(fs, n, f) == (n :> f) @@ fs

Remove(fs, n) == [m \in DOMAIN fs \ {n} |-> fs[m]]

----------------------------------------------------------------------------
(* Reading a gzip file *)

\* gzip.open(path, "rb").read(): the text the stream yields, and whether the
\* read raises (BadGzipFile on bytes that are no gzip stream, EOFError on a
\* stream without its end marker). A file of zero bytes reads as empty.
Gunzip(data) ==
    IF data.fmt = "gz"
    THEN [text |-> data.text, raised |-> data.trunc]
    ELSE [text |-> <<>>, raised |-> Len(data.text) > 0]

\* verify_backup's loop: for i, line in enumerate(f): append; if i >= 10: break
PreviewBreak == 10

RECURSIVE ReadFirstLines(_, _, _)
ReadFirstLines(un, i, acc) ==
    IF i >= Len(un.text)
    THEN [lines |-> acc, raised |-> un.raised]   \* the iterator reads on: end of stream, or the error
    ELSE LET acc2 == Append(acc, un.text[i + 1])
         IN  IF i >= PreviewBreak
             THEN [lines |-> acc2, raised |-> FALSE]
             ELSE ReadFirstLines(un, i + 1, acc2)

----------------------------------------------------------------------------
(* verify_backup *)

\* a faulty variant of IsEmpty: the test written as size < 0
IsEmpty_negative(size) == size < 0

\* if size == 0
IsEmpty(size) == size = 0

\* a faulty variant of has_sql: all() in place of any()
has_sql_all(first_lines) == \A i \in 1..Len(first_lines) : first_lines[i] \in Markers

\* any(kw in content_preview for kw in [...])
has_sql(first_lines) == \E i \in 1..Len(first_lines) : first_lines[i] \in Markers

\* a key a result dict does not hold is <<>>, a key it holds is <<value>>
VerifyBase(path) ==
    [file |-> path, status |-> "none", error |-> <<>>, size_bytes |-> <<>>,
     sha256 |-> <<>>, valid_sql |-> <<>>, steps |-> <<>>]

verify_backup(fs, path) ==
    IF path \notin DOMAIN fs
    THEN [VerifyBase(path) EXCEPT !.status = "error", !.error = <<"File not found">>]
    ELSE
    LET f    == fs[path]
        size == Size(f.data)
        r1   == [VerifyBase(path) EXCEPT !.size_bytes = <<size>>, !.steps = <<"stat">>]
    IN
    IF IsEmpty(size)
    THEN [r1 EXCEPT !.status = "error", !.error = <<"File is empty">>]
    ELSE IF ~f.readable
    THEN [r1 EXCEPT !.status = "error", !.error = <<"PermissionError">>,
                    !.steps = <<"stat", "sha256">>]
    ELSE
    LET r2 == [r1 EXCEPT !.sha256 = <<Sha256(f.data)>>, !.steps = <<"stat", "sha256">>]
    IN
    IF EndsWithGz(path)
    THEN LET rd == ReadFirstLines(Gunzip(f.data), 0, <<>>)
             valid_sql == has_sql(rd.lines)
         IN  IF rd.raised
             THEN [r2 EXCEPT !.status = "error", !.error = <<"gzip error">>,
                             !.steps = <<"stat", "sha256", "gunzip">>]
             ELSE [r2 EXCEPT !.valid_sql = <<valid_sql>>,
                             !.status = IF valid_sql THEN "verified" ELSE "warning",
                             !.steps = <<"stat", "sha256", "gunzip">>]
    ELSE [r2 EXCEPT !.valid_sql = <<TRUE>>, !.status = "verified"]

\* a faulty variant of verify_files: the file opened for writing, which truncates it
verify_files_truncating(fs, path) ==
    IF path \in DOMAIN fs THEN [fs EXCEPT ![path].data = Plain(<<>>)] ELSE fs

\* what verify_backup does to the directory: it opens files for reading only
verify_files(fs, path) == fs

----------------------------------------------------------------------------
(* The manifest *)

\* MANIFEST_FILE is missing, holds text that is no JSON, or holds a manifest
FreshManifest ==
    [kind |-> "json", backups |-> <<>>, last_local |-> <<>>,
     last_production |-> <<>>, last_cleanup |-> <<>>]

MissingManifest == [FreshManifest EXCEPT !.kind = "missing"]

\* a file cut short: a reader sees the cleanup of 1 January in it, json.loads
\* sees no JSON
CorruptManifest == [FreshManifest EXCEPT !.kind = "corrupt", !.last_cleanup = <<0>>]

\* a faulty variant of _load_manifest: what is legible of a corrupt file is kept
_load_manifest_salvaging(m) ==
    IF m.kind = "missing" THEN FreshManifest ELSE [m EXCEPT !.kind = "json"]

_load_manifest(m) == IF m.kind = "json" THEN m ELSE FreshManifest

_save_manifest(m) == [m EXCEPT !.kind = "json"]

----------------------------------------------------------------------------
(* Error texts and the secrets they may quote *)

\* a text is a sequence of tokens, each token a run of ChunkChars characters
ChunkChars == 100

\* proc.stderr[:500]
ErrorLimit == 500

\* the production DATABASE_URL and the Azure connection string, in two halves
db_url == <<"postgresql://peptide:", "secret@azure/peptide_plus">>
conn_str == <<"AccountName=lovepicsstorage;", "AccountKey=secret">>

\* text[:500]
Cut(text) ==
    SubSeq(text, 1, IF Len(text) < ErrorLimit \div ChunkChars
                    THEN Len(text) ELSE ErrorLimit \div ChunkChars)

\* sub in text
Contains(text, sub) ==
    \E i \in 1..(Len(text) - Len(sub) + 1) : SubSeq(text, i, i + Len(sub) - 1) = sub

\* text.replace(sub, "***")
RECURSIVE Replace(_, _)
Replace(text, sub) ==
    IF Len(text) < Len(sub) THEN text
    ELSE IF SubSeq(text, 1, Len(sub)) = sub
    THEN <<"***">> \o Replace(SubSeq(text, Len(sub) + 1, Len(text)), sub)
    ELSE <<Head(text)>> \o Replace(Tail(text), sub)

\* str(e) of subprocess.TimeoutExpired: it quotes the command line
TimeoutExpired(cmd) == <<"Command">> \o cmd \o <<"timed out">>

\* str(e) of the FileNotFoundError of a missing program
NotFound(program) == <<"No such file or directory", program>>

\* what a failing tool writes to stderr: a plain message, a message that
\* quotes the secret it was given, and a long one in which the secret starts
\* before character 500 and ends after it
PlainStderr == <<"connection refused">>
Stderrs(secret) ==
    { PlainStderr,
      <<"connection to">> \o secret \o <<"failed">>,
      <<"--", "--", "--", "--">> \o secret }

----------------------------------------------------------------------------
(* restore_from_backup *)

\* the dict of an early return: status and error only
RestoreBare(err) ==
    [status |-> "error", error |-> <<err>>, file |-> <<>>, target |-> <<>>,
     sha256 |-> <<>>, steps |-> <<>>]

RestoreBase(path, target) ==
    [status |-> "none", error |-> <<>>, file |-> <<path>>, target |-> <<target>>,
     sha256 |-> <<>>, steps |-> <<>>]

\* what a psql run does to the database it is pointed at: a run that starts
\* executes statements of the file, also when it then fails or is killed
PsqlEffect(d, psql) == IF psql = "missing" THEN d ELSE "written"

\* a faulty variant of RunsPsql: the test of db_url left out
RunsPsql_unchecked(target, url) == target \in {"local", "production"}

\* if target == "local" ... elif target == "production": if not db_url: return
\* ... else: return -- whether the call reaches a psql run
RunsPsql(target, url) == target = "local" \/ (target = "production" /\ url)

\* the command line of the psql run
PsqlCmd(target) ==
    IF target = "local" THEN <<"psql", "-h", "localhost", "-f">>
    ELSE <<"psql">> \o db_url \o <<"-f">>

\* the try block, entered when the path exists.
\* url: _get_production_db_url() found a URL; psql: how the psql run ends
\* ("ok", "nonzero", "missing": FileNotFoundError, "timeout": TimeoutExpired);
\* stderr: what psql wrote to stderr
restore_try(fs, dbs, path, target, url, psql, stderr, t) ==
    LET f  == fs[path]
        r0 == RestoreBase(path, target)
    IN
    IF ~f.readable
    THEN [files |-> fs, db |-> dbs,
          result |-> [r0 EXCEPT !.status = "error", !.error = <<"PermissionError">>,
                                !.steps = <<"sha256">>]]
    ELSE
    LET r1  == [r0 EXCEPT !.sha256 = <<Sha256(f.data)>>, !.steps = <<"sha256">>]
        gz  == EndsWithGz(path)
        sql_file == IF gz THEN WithoutSuffix(path) ELSE path
        un  == Gunzip(f.data)
        \* open(sql_file, "wb") creates the file, copyfileobj fills it
        fs1 == IF gz THEN Put(fs, sql_file, File(Plain(un.text), t)) ELSE fs
        r2  == IF gz THEN [r1 EXCEPT !.steps = <<"sha256", "gunzip">>] ELSE r1
    IN
    IF gz /\ un.raised
    THEN [files |-> fs1, db |-> dbs,
          result |-> [r2 EXCEPT !.status = "error", !.error = <<"gzip error">>]]
    ELSE IF RunsPsql(target, url)
    THEN LET r3   == [r2 EXCEPT !.steps = Append(@, "psql")]
             dbs1 == [dbs EXCEPT ![target] = PsqlEffect(@, psql)]
         IN  IF psql \in {"missing", "timeout"}
             THEN [files |-> fs1, db |-> dbs1,
                   result |-> [r3 EXCEPT !.status = "error",
                                  !.error = IF psql = "missing" THEN NotFound("psql")
                                            ELSE TimeoutExpired(PsqlCmd(target))]]
             ELSE LET clean == gz /\ sql_file \in DOMAIN fs1
                      fs2   == IF clean THEN Remove(fs1, sql_file) ELSE fs1
                      r4    == IF clean THEN [r3 EXCEPT !.steps = Append(@, "unlink")]
                               ELSE r3
                  IN  [files |-> fs2, db |-> dbs1,
                       result |-> IF psql = "ok"
                                  THEN [r4 EXCEPT !.status = "restored"]
                                  ELSE [r4 EXCEPT !.status = "error",
                                                  !.error = Cut(stderr)]]
    ELSE IF target = "production"
    THEN [files |-> fs1, db |-> dbs,
          result |-> [RestoreBare("Production DATABASE_URL not found")
                        EXCEPT !.steps = r2.steps]]
    ELSE [files |-> fs1, db |-> dbs,
          result |-> [RestoreBare("Unknown target") EXCEPT !.steps = r2.steps]]

\* a faulty variant of restore_from_backup: the output file opened before the test
\* that the input exists
restore_from_backup_opening(fs, dbs, path, target, url, psql, stderr, t) ==
    IF path \notin DOMAIN fs
    THEN [files |-> Put(fs, WithoutSuffix(path), File(Plain(<<>>), t)), db |-> dbs,
          result |-> RestoreBare("File not found")]
    ELSE restore_try(fs, dbs, path, target, url, psql, stderr, t)

\* a faulty variant of restore_from_backup: a restore that first asks verify_backup
\* and refuses a file that is not verified
restore_from_backup_verified(fs, dbs, path, target, url, psql, stderr, t) ==
    IF path \notin DOMAIN fs
    THEN [files |-> fs, db |-> dbs, result |-> RestoreBare("File not found")]
    ELSE IF verify_backup(fs, path).status # "verified"
    THEN [files |-> fs, db |-> dbs, result |-> RestoreBare("Backup not verified")]
    ELSE restore_try(fs, dbs, path, target, url, psql, stderr, t)

restore_from_backup(fs, dbs, path, target, url, psql, stderr, t) ==
    IF path \notin DOMAIN fs
    THEN [files |-> fs, db |-> dbs, result |-> RestoreBare("File not found")]
    ELSE restore_try(fs, dbs, path, target, url, psql, stderr, t)

----------------------------------------------------------------------------
(* cleanup_old_backups *)

\* a faulty variant of Keep: the weekly window counted in days, not weeks
Keep_weekly_days(mtime, t) ==
    LET age_days == AgeDays(t, mtime)
    IN  IF DayOfMonth(mtime) <= 1 /\ age_days <= RETENTION.monthly * 30
        THEN TRUE
        ELSE IF Weekday(mtime) = 6 /\ age_days <= RETENTION.weekly
        THEN TRUE
        ELSE age_days <= RETENTION.daily

\* a faulty variant of Keep: the daily window without its last day
Keep_strict(mtime, t) ==
    LET age_days == AgeDays(t, mtime)
    IN  IF DayOfMonth(mtime) <= 1 /\ age_days <= RETENTION.monthly * 30
        THEN TRUE
        ELSE IF Weekday(mtime) = 6 /\ age_days <= RETENTION.weekly * 7
        THEN TRUE
        ELSE age_days < RETENTION.daily

\* the if / elif chain that sets keep
Keep(mtime, t) ==
    LET age_days == AgeDays(t, mtime)
    IN  IF DayOfMonth(mtime) <= 1 /\ age_days <= RETENTION.monthly * 30
        THEN TRUE
        ELSE IF Weekday(mtime) = 6 /\ age_days <= RETENTION.weekly * 7
        THEN TRUE
        ELSE IF age_days <= RETENTION.daily
        THEN TRUE
        ELSE FALSE

\* the for loop over sorted(BACKUP_DIR.glob("peptide_*.sql.gz"))
RECURSIVE CleanupLoop(_, _, _)
CleanupLoop(todo, t, acc) ==
    IF todo = <<>> THEN acc
    ELSE LET gz_file == Head(todo)
             mtime   == acc.files[gz_file].mtime
         IN  IF Keep(mtime, t)
             THEN CleanupLoop(Tail(todo), t,
                      [acc EXCEPT !.kept = Append(@, gz_file)])
             ELSE CleanupLoop(Tail(todo), t,
                      [acc EXCEPT !.files = Remove(@, gz_file),
                                  !.removed = Append(@, [name |-> gz_file,
                                                age_days |-> AgeDays(t, mtime)])])

\* a faulty variant of cleanup_old_backups: the manifest written only when a
\* file was removed
cleanup_old_backups_lazy(fs, man, t) ==
    LET done == CleanupLoop(Sorted(GlobBackups(fs)), t,
                            [files |-> fs, kept |-> <<>>, removed |-> <<>>])
        m    == _load_manifest(man)
    IN  [files    |-> done.files,
         manifest |-> IF done.removed = <<>> THEN man
                      ELSE _save_manifest([m EXCEPT !.last_cleanup = <<t>>]),
         result   |-> [kept |-> Len(done.kept), removed |-> Len(done.removed),
                       removed_files |-> done.removed]]

\* a faulty variant of cleanup_old_backups: the records of the files removed
\* are taken out of the manifest
cleanup_old_backups_pruning(fs, man, t) ==
    LET done == CleanupLoop(Sorted(GlobBackups(fs)), t,
                            [files |-> fs, kept |-> <<>>, removed |-> <<>>])
        m    == _load_manifest(man)
        left == SelectSeq(m.backups,
                          LAMBDA record : record.file = <<>> \/ record.file[1] \in DOMAIN done.files)
    IN  [files    |-> done.files,
         manifest |-> _save_manifest([m EXCEPT !.last_cleanup = <<t>>,
                                               !.backups = left]),
         result   |-> [kept |-> Len(done.kept), removed |-> Len(done.removed),
                       removed_files |-> done.removed]]

cleanup_old_backups(fs, man, t) ==
    LET done == CleanupLoop(Sorted(GlobBackups(fs)), t,
                            [files |-> fs, kept |-> <<>>, removed |-> <<>>])
        m    == _load_manifest(man)
    IN  [files    |-> done.files,
         manifest |-> _save_manifest([m EXCEPT !.last_cleanup = <<t>>]),
         result   |-> [kept |-> Len(done.kept), removed |-> Len(done.removed),
                       removed_files |-> done.removed]]

----------------------------------------------------------------------------
(* backup_local_db and backup_production_db *)

BackupBase(type, t) ==
    [type |-> type, timestamp |-> t, status |-> "none", error |-> <<>>,
     file |-> <<>>, sha256 |-> <<>>, size_bytes |-> <<>>]

BackupError(type, t, err) ==
    [BackupBase(type, t) EXCEPT !.status = "error", !.error = <<err>>]

\* result["error"] of a pg_dump that exits non-zero: proc.stderr[:500], in
\* backup_production_db with db_url replaced when the cut text holds it
DumpError(type, stderr) ==
    LET error == Cut(stderr)
    IN  IF type = "production" /\ Contains(error, db_url)
        THEN Replace(error, db_url)
        ELSE error

\* a faulty variant of DumpLeftover: the -f file created before pg_dump is looked for
DumpLeftover_always(fs, dump_file, pg, t) ==
    Put(fs, dump_file, File(Plain(SubSeq(pg.text, 1, 1)), t))

\* a pg_dump run that fails may have created its -f file already
DumpLeftover(fs, dump_file, pg, t) ==
    IF pg.wrote THEN Put(fs, dump_file, File(Plain(SubSeq(pg.text, 1, 1)), t))
    ELSE fs

\* a faulty variant of Stamp: both timestamps set by either backup
Stamp_both(m, type, t) == [m EXCEPT !.last_local = <<t>>, !.last_production = <<t>>]

\* manifest["last_local"] = datetime.now().isoformat(), or last_production
Stamp(m, type, t) ==
    IF type = "local" THEN [m EXCEPT !.last_local = <<t>>]
    ELSE [m EXCEPT !.last_production = <<t>>]

\* pg_dump, gzip, unlink, _sha256, manifest update: the part both backups share
DumpAndRecord(fs, man, t, type, pg, not_found, timed_out) ==
    LET dump_file == Name(type, t, SqlSfx)
        gz_file   == Name(type, t, GzSfx)
    IN
    CASE pg.rc = "missing" ->
           [files |-> DumpLeftover(fs, dump_file, pg, t), manifest |-> man,
            result |-> BackupError(type, t, not_found)]
      [] pg.rc = "timeout" ->
           [files |-> DumpLeftover(fs, dump_file, pg, t), manifest |-> man,
            result |-> BackupError(type, t, timed_out)]
      [] pg.rc = "nonzero" ->
           [files |-> DumpLeftover(fs, dump_file, pg, t), manifest |-> man,
            result |-> [BackupBase(type, t) EXCEPT
                            !.status = "error", !.error = DumpError(type, pg.stderr)]]
      [] OTHER ->
           LET data   == Gzip(pg.text)
               fs1    == Put(fs, dump_file, File(Plain(pg.text), t))
               fs2    == Put(fs1, gz_file, File(data, t))
               fs3    == Remove(fs2, dump_file)
               result == [BackupBase(type, t) EXCEPT
                              !.file = <<gz_file>>, !.sha256 = <<Sha256(data)>>,
                              !.size_bytes = <<Size(data)>>, !.status = "success"]
               m      == _load_manifest(man)
               stamp  == Stamp(m, type, t)
           IN  [files |-> fs3,
                manifest |-> _save_manifest(
                                 [stamp EXCEPT !.backups = Append(@, result)]),
                result |-> result]

\* docker: how the docker ps check ends ("listed", "notlisted", "missing",
\* "timeout"); pg: how pg_dump ends, [rc, text, wrote, stderr]
backup_local_db(fs, man, t, docker, pg) ==
    CASE docker = "missing" ->
           [files |-> fs, manifest |-> man,
            result |-> BackupError("local", t, "pg_dump not found")]
      [] docker = "timeout" ->
           [files |-> fs, manifest |-> man,
            result |-> BackupError("local", t, "pg_dump timed out")]
      [] OTHER ->
           DumpAndRecord(fs, man, t, "local", pg,
                         "pg_dump not found", "pg_dump timed out")

backup_production_db(fs, man, t, url, pg) ==
    IF ~url
    THEN [files |-> fs, manifest |-> man,
          result |-> BackupError("production", t,
                                 "Production DATABASE_URL not found")]
    ELSE DumpAndRecord(fs, man, t, "production", pg,
                       "No such file or directory", "Production pg_dump timed out")

----------------------------------------------------------------------------
(* get_latest_backup and get_status *)

\* the last of sorted(files, key=mtime): the file of the greatest mtime; two
\* files of one type and one mtime bear one name, so there is one such file
Newest(fs, S) == CHOOSE n \in S : \A o \in S : fs[o].mtime <= fs[n].mtime

\* get_latest_backup: <<>> stands for None
get_latest_backup(fs, backup_type) ==
    LET backups == { n \in DOMAIN fs : MatchesType(n, backup_type) }
    IN  IF backups = {} THEN <<>> ELSE <<Newest(fs, backups)>>

\* a faulty variant of TooOld: a backup of exactly 24 hours counted as old
TooOld_inclusive(hours) == hours >= 24

\* latest_local > 24
TooOld(hours) == hours > 24

\* the truth value of a number: 0 is false
Truthy(x) == x # 0

get_status(fs, t) ==
    LET backups       == GlobBackups(fs)
        local_backups == { b \in backups : b.kind = "local" }
        prod_backups  == { b \in backups : b.kind = "production" }
        latest_local  == IF local_backups = {} THEN <<>>
                         ELSE <<t - fs[Newest(fs, local_backups)].mtime>>
        latest_prod   == IF prod_backups = {} THEN <<>>
                         ELSE <<t - fs[Newest(fs, prod_backups)].mtime>>
        health == IF backups = {} THEN "CRITICAL"
                  ELSE IF latest_local # <<>> /\ Truthy(latest_local[1])
                          /\ TooOld(latest_local[1])
                  THEN "WARNING"
                  ELSE "OK"
    IN  [health |-> health,
         counts |-> [total |-> Cardinality(backups),
                     local |-> Cardinality(local_backups),
                     production |-> Cardinality(prod_backups)],
         local_hours_ago |-> IF latest_local # <<>> /\ Truthy(latest_local[1])
                             THEN latest_local ELSE <<>>,
         production_hours_ago |-> IF latest_prod # <<>> /\ Truthy(latest_prod[1])
                                  THEN latest_prod ELSE <<>>]

----------------------------------------------------------------------------
(* upload_to_azure *)

\* a call that ends in an exception instead of returning a result
Raised(exception) == [raised |-> exception]

UploadError(text) ==
    [status |-> "error", error |-> text, blob |-> <<>>, size_bytes |-> <<>>]

\* the command line of the upload; the connection string travels in the
\* environment, not in the command line
AzCmd(filepath) == <<"az", "storage", "blob", "upload", "--file", filepath>>

\* conn: the Keychain gave a connection string; az: how the az runs end
\* ("ok", "nonzero", "missing": FileNotFoundError, "timeout": TimeoutExpired);
\* stderr: what the upload wrote to stderr
upload_to_azure(fs, bl, filepath, conn, az, stderr) ==
    IF ~conn
    THEN [blobs |-> bl,
          result |-> UploadError(<<"Azure connection string not found in Keychain">>)]
    ELSE IF filepath \notin DOMAIN fs
    \* Path(filepath).stat() stands before the try block
    THEN [blobs |-> bl, result |-> Raised("FileNotFoundError")]
    ELSE
    LET size == Size(fs[filepath].data)
    IN  CASE az = "missing" -> [blobs |-> bl, result |-> UploadError(<<"az CLI not found">>)]
          [] az = "timeout" ->
               [blobs |-> bl, result |-> UploadError(TimeoutExpired(AzCmd(filepath)))]
          [] az = "nonzero" ->
               [blobs |-> bl, result |-> UploadError(Cut(Replace(stderr, conn_str)))]
          [] OTHER ->
               [blobs |-> Put(bl, filepath, fs[filepath].data),
                result |-> [status |-> "uploaded", error |-> <<>>,
                            blob |-> <<filepath>>, size_bytes |-> <<size>>]]

----------------------------------------------------------------------------
(* main *)

\* the commands of the if / elif chain, in its order
Commands ==
    <<"status", "list", "local", "production", "azure", "all", "restore",
      "restore_latest", "verify", "cleanup">>

\* the branch the chain takes: the first command whose flag is given, with
\* --local also taken when no command flag is given at all
RECURSIVE FirstGiven(_, _)
FirstGiven(flags, i) ==
    IF i > Len(Commands) THEN "local"
    ELSE IF Commands[i] \in flags THEN Commands[i]
    ELSE FirstGiven(flags, i + 1)

Branch(flags) == FirstGiven(flags, 1)

\* a line of standard output: text, or JSON under --json
Line(json, label, value) ==
    [fmt |-> IF json THEN "json" ELSE "text", label |-> label, value |-> value]

\* the state and the outcome a run of main ends with
Ended(fs, man, dbs, bl, exit, printed, calls) ==
    [files |-> fs, manifest |-> man, db |-> dbs, blobs |-> bl,
     result |-> [status |-> IF exit = 0 THEN "exit 0" ELSE "exit 1",
                 exit |-> exit, printed |-> printed, calls |-> calls]]

\* print(json.dumps(result)) or the lines of the else branch
Report(json, label, result) ==
    <<Line(json, label, result.status)>>
    \o (IF ~json /\ result.error # <<>> THEN <<Line(FALSE, "Error", "error")>> ELSE <<>>)

\* a faulty variant of UploadsProduction: no upload of the production backup
\* once the local backup has failed
UploadsProduction_chained(r1, r2) == r1.status = "success" /\ r2.status = "success"

\* if r2["status"] == "success"
UploadsProduction(r1, r2) == r2.status = "success"

\* a faulty variant of main_all: a local dump that failed is tried once more
main_all_retrying(fs, man, dbs, bl, t, e) ==
    LET o1 == backup_local_db(fs, man, t, e.local.docker, e.local.pg)
        again == o1.result.status = "error"
        o1b == IF again
               THEN backup_local_db(o1.files, o1.manifest, t, e.local.docker, e.local.pg)
               ELSE o1
        o2 == backup_production_db(o1b.files, o1b.manifest, t, e.production.url,
                                   e.production.pg)
    IN  Ended(o2.files, o2.manifest, dbs, bl, 0,
              <<Line(FALSE, "Running full backup cycle...", ""),
                Line(FALSE, "Local", o1b.result.status),
                Line(FALSE, "Production", o2.result.status),
                Line(FALSE, "Full backup cycle complete.", "")>>,
              <<"backup_local_db">>
                  \o (IF again THEN <<"backup_local_db">> ELSE <<>>)
                  \o <<"backup_production_db">>)

\* the --all branch. e: the inputs of the calls it makes
main_all(fs, man, dbs, bl, t, e) ==
    LET o1 == backup_local_db(fs, man, t, e.local.docker, e.local.pg)
        r1 == o1.result
        o2 == backup_production_db(o1.files, o1.manifest, t, e.production.url,
                                   e.production.pg)
        r2 == o2.result
        up1 == r1.status = "success"
        o3 == IF up1
              THEN upload_to_azure(o2.files, bl, r1.file[1], e.upload_local.conn,
                                   e.upload_local.az, e.upload_local.stderr)
              ELSE [blobs |-> bl, result |-> UploadError(<<>>)]
        up2 == UploadsProduction(r1, r2)
        o4 == IF up2
              THEN upload_to_azure(o2.files, o3.blobs, r2.file[1],
                                   e.upload_production.conn, e.upload_production.az,
                                   e.upload_production.stderr)
              ELSE [blobs |-> o3.blobs, result |-> UploadError(<<>>)]
        head == <<Line(FALSE, "Running full backup cycle...", ""),
                  Line(FALSE, "Local", r1.status),
                  Line(FALSE, "Production", r2.status)>>
        calls12 == <<"backup_local_db", "backup_production_db">>
    IN
    IF up1 /\ "raised" \in DOMAIN o3.result
    THEN Ended(o2.files, o2.manifest, dbs, o3.blobs, 1, head,
               calls12 \o <<"upload_to_azure">>)
    ELSE
    LET line3  == IF up1 THEN <<Line(FALSE, "Azure (local)", o3.result.status)>>
                  ELSE <<>>
        calls3 == calls12 \o (IF up1 THEN <<"upload_to_azure">> ELSE <<>>)
    IN
    IF up2 /\ "raised" \in DOMAIN o4.result
    THEN Ended(o2.files, o2.manifest, dbs, o4.blobs, 1, head \o line3,
               calls3 \o <<"upload_to_azure">>)
    ELSE
    LET line4  == IF up2 THEN <<Line(FALSE, "Azure (prod)", o4.result.status)>>
                  ELSE <<>>
        calls4 == calls3 \o (IF up2 THEN <<"upload_to_azure">> ELSE <<>>)
    IN  Ended(o2.files, o2.manifest, dbs, o4.blobs, 0,
              head \o line3 \o line4
                   \o <<Line(FALSE, "Full backup cycle complete.", "")>>,
              calls4)

\* a faulty variant of OrElse: the second lookup forgotten
OrElse_first(first, second) == first

\* get_latest_backup("local") or get_latest_backup("production")
OrElse(first, second) == IF first # <<>> THEN first ELSE second

\* args: [flags, json, path, target]; e: the inputs of the calls main makes
main(fs, man, dbs, bl, t, args, e) ==
    LET b    == Branch(args.flags)
        json == args.json
    IN
    CASE b = "status" ->
           Ended(fs, man, dbs, bl, 0,
                 <<Line(json, "Health", get_status(fs, t).health)>>, <<"get_status">>)
      [] b = "list" ->
           Ended(fs, man, dbs, bl, 0, <<Line(json, "Backups", "")>>, <<"list_backups">>)
      [] b = "local" ->
           LET o == backup_local_db(fs, man, t, e.local.docker, e.local.pg)
           IN  Ended(o.files, o.manifest, dbs, bl, 0,
                     <<Line(json, IF o.result.status = "success"
                                  THEN "Local backup OK" ELSE "Backup FAILED",
                            o.result.status)>>,
                     <<"backup_local_db">>)
      [] b = "production" ->
           LET o == backup_production_db(fs, man, t, e.production.url, e.production.pg)
           IN  Ended(o.files, o.manifest, dbs, bl, 0,
                     <<Line(json, IF o.result.status = "success"
                                  THEN "Production backup OK"
                                  ELSE "Production backup FAILED",
                            o.result.status)>>,
                     <<"backup_production_db">>)
      [] b = "azure" ->
           LET latest == OrElse(get_latest_backup(fs, "local"),
                                get_latest_backup(fs, "production"))
           IN  IF latest = <<>>
               THEN Ended(fs, man, dbs, bl, 1,
                          <<Line(FALSE, "No backup file found to upload", "")>>,
                          <<"get_latest_backup">>)
               ELSE
               LET o == upload_to_azure(fs, bl, latest[1], e.upload_local.conn,
                                        e.upload_local.az, e.upload_local.stderr)
               IN  IF "raised" \in DOMAIN o.result
                   THEN Ended(fs, man, dbs, o.blobs, 1, <<>>,
                              <<"get_latest_backup", "upload_to_azure">>)
                   ELSE Ended(fs, man, dbs, o.blobs, 0,
                              <<Line(json, IF o.result.status = "uploaded"
                                           THEN "Uploaded" ELSE "Upload FAILED",
                                     o.result.status)>>,
                              <<"get_latest_backup", "upload_to_azure">>)
      [] b = "all" -> main_all(fs, man, dbs, bl, t, e)
      [] b = "restore" ->
           LET o == restore_from_backup(fs, dbs, args.path, args.target,
                                        e.restore.url, e.restore.psql,
                                        e.restore.stderr, t)
           IN  Ended(o.files, man, o.db, bl, 0, Report(json, "Restore", o.result),
                     <<"restore_from_backup">>)
      [] b = "restore_latest" ->
           LET latest == get_latest_backup(fs, "local")
           IN  IF latest = <<>>
               THEN Ended(fs, man, dbs, bl, 1,
                          <<Line(FALSE, "No local backup found to restore", "")>>,
                          <<"get_latest_backup">>)
               ELSE
               LET o == restore_from_backup(fs, dbs, latest[1], args.target,
                                            e.restore.url, e.restore.psql,
                                            e.restore.stderr, t)
               IN  Ended(o.files, man, o.db, bl, 0,
                         <<Line(FALSE, "Restoring from", "")>>
                             \o Report(FALSE, "Restore", o.result),
                         <<"get_latest_backup", "restore_from_backup">>)
      [] b = "verify" ->
           Ended(verify_files(fs, args.path), man, dbs, bl, 0,
                 <<Line(json, "Verification", verify_backup(fs, args.path).status)>>,
                 <<"verify_backup">>)
      [] OTHER ->
           LET o == cleanup_old_backups(fs, man, t)
           IN  Ended(o.files, o.manifest, dbs, bl, 0, <<Line(json, "Cleanup", "")>>,
                     <<"cleanup_old_backups">>)

----------------------------------------------------------------------------
(* Invocations that run side by side *)

\* two invocations; the first one dumps the local database, the second one
\* the production database, and either may run the cleanup instead
Procs == {1, 2}

OpsOf(p) ==
    IF p = 1 THEN {"backup_local", "cleanup"} ELSE {"backup_production", "cleanup"}

TypeOf(op) == IF op = "backup_local" THEN "local" ELSE "production"

\* an invocation that has not started. pc: the statement it stands before;
\* t: the datetime.now() it read on entry; sha: the hash it computed;
\* m: the manifest it loaded; steps: the statements it has executed;
\* seen (history): MANIFEST_FILE as it was when the invocation loaded it
Idle ==
    [pc |-> "idle", op |-> "none", t |-> 0, sha |-> <<>>, m |-> FreshManifest,
     seen |-> MissingManifest, steps |-> <<>>, result |-> [status |-> "none"]]

NoProcs == [p \in Procs |-> Idle]

----------------------------------------------------------------------------
(* The directories the program starts from *)

\* Friday 2024-06-28, 08:00
StartTime == 179 * HoursPerDay + 8

At(day, hour) == day * HoursPerDay + hour

Pad(n) == [i \in 1..n |-> "--"]

DumpText == <<"PostgreSQL", "SET statement_timeout", "CREATE TABLE", "INSERT INTO">>

\* what pg_dump writes of a database: the rows a psql run has put there are in it
DumpOf(d) == IF d = "initial" THEN DumpText ELSE DumpText \o <<"INSERT INTO">>
NoMarkerText == <<"--", "create table">>

Seed(kind, ts, sfx, data, readable) ==
    [name |-> Name(kind, ts, sfx),
     file |-> [data |-> data, mtime |-> ts, readable |-> readable]]

Dated(kind, day, hour) == Seed(kind, At(day, hour), GzSfx, Gzip(DumpText), TRUE)

\* backup files of several ages, weekdays and days of the month
AgedSeeds ==
    { Dated("local", 139, 8),       \* Sunday 05-19, 40 days old
      Dated("local", 169, 8),       \* Tuesday 06-18, 10 days old
      Dated("local", 179, 8),       \* written at StartTime
      Dated("local", 79, 8),        \* Wednesday 03-20, 100 days old
      Dated("production", 165, 8),  \* Friday 06-14, 14 days old
      Dated("production", 164, 20), \* Thursday 06-13 20:00, 14 days 12 hours old
      Dated("local", 0, 8),         \* Monday 01-01, 179 days old
      Dated("local", 125, 8),       \* Sunday 05-05, 54 days old
      Dated("local", 118, 8),       \* Sunday 04-28, 61 days old
      Dated("production", 152, 8),  \* Saturday 06-01, 27 days old
      Dated("production", 91, 8),   \* Monday 04-01, 88 days old
      Dated("other", 79, 8),        \* not peptide_*: 100 days old
      Seed("local", At(78, 8), SqlSfx, Plain(DumpText), TRUE) }  \* a .sql, 101 days old

\* files of several contents, all written the day before StartTime
ContentSeeds ==
    { Seed("local", At(178, 0), GzSfx, Gzip(DumpText), TRUE),
      Seed("local", At(178, 1), GzSfx, Gzip(NoMarkerText), TRUE),
      Seed("local", At(178, 2), GzSfx, Gzip(Pad(PreviewBreak) \o <<"CREATE TABLE">>), TRUE),
      Seed("local", At(178, 3), GzSfx, Gzip(Pad(PreviewBreak + 1) \o <<"INSERT INTO">>), TRUE),
      Seed("local", At(178, 4), GzSfx, Plain(<<>>), TRUE),
      Seed("local", At(178, 5), GzSfx, Plain(<<"garbage">>), TRUE),
      Seed("local", At(178, 6), GzSfx, [Gzip(DumpText) EXCEPT !.trunc = TRUE], TRUE),
      Seed("local", At(178, 7), GzSfx,
           [Gzip(DumpText \o Pad(PreviewBreak)) EXCEPT !.trunc = TRUE], TRUE),
      Seed("local", At(178, 9), GzSfx, Gzip(DumpText), FALSE),
      Seed("local", At(178, 10), SqlSfx, Plain(DumpText), TRUE),
      Seed("local", At(178, 11), SqlSfx, Plain(NoMarkerText), TRUE),
      Seed("local", At(178, 12), GzSfx, Gzip(<<>>), TRUE) }

Dir(S) == [n \in {s.name : s \in S} |-> (CHOOSE s \in S : s.name = n).file]

\* the scenario of the retention run: three files, then a fourth
Scenario3 ==
    { Dated("local", 139, 8), Dated("local", 169, 8), Dated("local", 179, 8) }
Scenario4 == Scenario3 \cup { Dated("local", 79, 8) }

UpTo(S, n) == { T \in SUBSET S : Cardinality(T) <= n }

\* a path no file of the directory has
MissingPath == Name("local", 0, GzSfx)

NoCall == [op |-> "none"]

InitWith(SeedSets, Manifests) ==
    /\ now = StartTime
    /\ \E S \in SeedSets : files = Dir(S)
    /\ manifest \in Manifests
    /\ db = [t \in Targets |-> "initial"]
    /\ blobs = <<>>
    /\ proc = NoProcs
    /\ last = NoCall

Init == InitWith(UpTo(ContentSeeds, MaxSeed), {MissingManifest})

InitRetention == InitWith(UpTo(AgedSeeds, MaxSeed) \cup {Scenario3, Scenario4}, {MissingManifest, CorruptManifest})

----------------------------------------------------------------------------
(* Actions *)

TickSteps == {20, 30}

RestoreTargets == Targets \cup {"staging"}
PsqlOutcomes == {"ok", "nonzero", "missing", "timeout"}

\* the inputs of a restore, those that cannot matter left out: the URL is
\* read for target production only, psql runs for a resolved target only
RestoreInputs(stderrs) ==
    { c \in [target : RestoreTargets, url : BOOLEAN, psql : PsqlOutcomes,
             stderr : stderrs] :
        /\ c.target # "production" => c.url
        /\ (c.target = "staging" \/ ~c.url) => c.psql = "ok"
        /\ c.psql # "nonzero" => c.stderr = PlainStderr }

RestoreCalls == RestoreInputs({PlainStderr})

OkDump == [rc |-> "ok", text |-> DumpText, wrote |-> TRUE, stderr |-> PlainStderr]

\* a pg_dump that is missing writes nothing, one that ends well has written
\* its file; stderr is read after a non-zero exit only
PgDumpInputs(stderrs) ==
    { pg \in [rc : {"ok", "nonzero", "timeout", "missing"}, text : {DumpText},
              wrote : BOOLEAN, stderr : stderrs] :
        /\ pg.rc = "ok" => pg.wrote
        /\ pg.rc = "timeout" => pg.wrote
        /\ pg.rc = "missing" => ~pg.wrote
        /\ pg.rc # "nonzero" => pg.stderr = PlainStderr }

PgDumpOutcomes == PgDumpInputs({PlainStderr})

\* the inputs of a local backup: pg_dump does not run when the docker check raises
LocalBackupCalls ==
    { c \in [docker : {"listed", "notlisted", "missing", "timeout"},
             pg : PgDumpOutcomes] :
        c.docker \in {"missing", "timeout"} => c.pg = OkDump }

ProductionBackupCalls ==
    { c \in [url : BOOLEAN, pg : PgDumpOutcomes] : ~c.url => c.pg = OkDump }

ProductionBackupInputs(stderrs) ==
    { c \in [url : BOOLEAN, pg : PgDumpInputs(stderrs)] : ~c.url => c.pg = OkDump }

AzOutcomes == {"ok", "nonzero", "missing", "timeout"}

\* the inputs of an upload: az does not run without a connection string
UploadInputs(stderrs) ==
    { c \in [conn : BOOLEAN, az : AzOutcomes, stderr : stderrs] :
        /\ ~c.conn => c.az = "ok"
        /\ c.az # "nonzero" => c.stderr = PlainStderr }

UploadCalls == UploadInputs({PlainStderr})

Paths == DOMAIN files \cup {MissingPath}

\* the clock advances between two calls
Advance(d) ==
    /\ now + d <= StartTime + MaxElapsed
    /\ now' = now + d
    /\ UNCHANGED <<files, manifest, db, blobs, last, proc>>

Tick == \E d \in TickSteps : Advance(d)

\* a day, and an hour more, pass
StatusSteps == {24, 25}

TickStatus == \E d \in StatusSteps : Advance(d)

Status ==
    /\ last' = [op |-> "status", call |-> [at |-> now],
                result |-> get_status(files, now)]
    /\ UNCHANGED <<now, files, manifest, db, blobs, proc>>

Verify(path) ==
    /\ last' = [op |-> "verify", call |-> [path |-> path],
                result |-> verify_backup(files, path)]
    /\ files' = verify_files(files, path)
    /\ UNCHANGED <<now, manifest, db, blobs, proc>>

RoomForFile == Cardinality(DOMAIN files) < MaxFiles

\* the restore needs no room when the file it decompresses to is there already
Restore(path, c) ==
    /\ RoomForFile \/ (EndsWithGz(path) /\ WithoutSuffix(path) \in DOMAIN files)
    /\ LET out == restore_from_backup(files, db, path, c.target, c.url, c.psql,
                                      c.stderr, now)
       IN  /\ files' = out.files
           /\ db' = out.db
           /\ last' = [op |-> "restore", call |-> [path |-> path] @@ c,
                       result |-> out.result]
    /\ UNCHANGED <<now, manifest, blobs, proc>>

Cleanup ==
    LET out == cleanup_old_backups(files, manifest, now)
    IN  /\ files' = out.files
        /\ manifest' = out.manifest
        /\ last' = [op |-> "cleanup",
                    call |-> [at |-> now,
                              \* what the run found in MANIFEST_FILE
                              found |-> manifest.kind,
                              \* history: the run this one directly follows
                              after |-> IF last.op = "cleanup"
                                        THEN <<last.call.at>> ELSE <<>>],
                    result |-> out.result]
        /\ UNCHANGED <<now, db, blobs, proc>>

CanBackup ==
    /\ RoomForFile
    /\ Len(_load_manifest(manifest).backups) < MaxBackups

BackupLocal(c) ==
    /\ CanBackup
    /\ LET pg  == [c.pg EXCEPT !.text = DumpOf(db["local"])]
           out == backup_local_db(files, manifest, now, c.docker, pg)
       IN  /\ files' = out.files
           /\ manifest' = out.manifest
           /\ last' = [op |-> "backup_local",
                       call |-> [found |-> manifest.kind] @@ c,
                       result |-> out.result]
    /\ UNCHANGED <<now, db, blobs, proc>>

BackupProduction(c) ==
    /\ CanBackup
    /\ LET pg  == [c.pg EXCEPT !.text = DumpOf(db["production"])]
           out == backup_production_db(files, manifest, now, c.url, pg)
       IN  /\ files' = out.files
           /\ manifest' = out.manifest
           /\ last' = [op |-> "backup_production",
                       call |-> [found |-> manifest.kind] @@ c,
                       result |-> out.result]
    /\ UNCHANGED <<now, db, blobs, proc>>

Upload(path, c) ==
    /\ LET out == upload_to_azure(files, blobs, path, c.conn, c.az, c.stderr)
       IN  /\ blobs' = out.blobs
           /\ last' = [op |-> "upload", call |-> [path |-> path] @@ c,
                       result |-> out.result]
    /\ UNCHANGED <<now, files, manifest, db, proc>>

\* verifying and restoring, among backups that succeed; the clock stands still
Next ==
    \/ \E path \in Paths : Verify(path)
    \/ \E path \in Paths, c \in RestoreCalls : Restore(path, c)
    \/ BackupLocal([docker |-> "listed", pg |-> OkDump])
    \/ BackupProduction([url |-> TRUE, pg |-> OkDump])

Spec == Init /\ [][Next]_vars

\* the retention runs: the clock, the cleanup, and the backups with every
\* outcome of the docker check and of pg_dump
NextRetention ==
    \/ Tick
    \/ Cleanup
    \/ \E c \in LocalBackupCalls : BackupLocal(c)
    \/ \E c \in ProductionBackupCalls : BackupProduction(c)

SpecRetention == InitRetention /\ [][NextRetention]_vars

\* the command lines: each command alone, no command at all, and pairs of
\* which the chain takes the first
CliFlagSets ==
    { {Commands[i]} : i \in 1..Len(Commands) }
        \cup { {}, {"local", "restore_latest"}, {"azure", "cleanup"} }

FailedDump == [rc |-> "nonzero", text |-> DumpText, wrote |-> FALSE,
               stderr |-> PlainStderr]
OkUpload == [conn |-> TRUE, az |-> "ok", stderr |-> PlainStderr]
OkRestore == [url |-> TRUE, psql |-> "ok", stderr |-> PlainStderr]

\* the inputs of the calls of a run: each call ends well or fails
CliEnvs ==
    [local : { [docker |-> "listed", pg |-> pg] : pg \in {OkDump, FailedDump} },
     production : { [url |-> TRUE, pg |-> OkDump], [url |-> FALSE, pg |-> OkDump] },
     upload_local : { OkUpload, [OkUpload EXCEPT !.az = "nonzero"] },
     upload_production : { OkUpload, [OkUpload EXCEPT !.conn = FALSE] },
     restore : { OkRestore, [OkRestore EXCEPT !.psql = "nonzero"],
                 [OkRestore EXCEPT !.url = FALSE] }]

DefaultEnv ==
    [local |-> [docker |-> "listed", pg |-> OkDump],
     production |-> [url |-> TRUE, pg |-> OkDump],
     upload_local |-> OkUpload, upload_production |-> OkUpload,
     restore |-> OkRestore]

\* the inputs the branch reads, the others at their default
Reads(b) ==
    CASE b \in {"local"} -> {"local"}
      [] b = "production" -> {"production"}
      [] b = "azure" -> {"upload_local"}
      [] b = "all" -> {"local", "production", "upload_local", "upload_production"}
      [] b \in {"restore", "restore_latest"} -> {"restore"}
      [] OTHER -> {}

EnvsFor(b) ==
    { e \in CliEnvs : \A k \in DOMAIN DefaultEnv \ Reads(b) : e[k] = DefaultEnv[k] }

Runs == IF last.op = "main" THEN last.call.run ELSE 0

Main(args, e) ==
    LET pgl == [e.local.pg EXCEPT !.text = DumpOf(db["local"])]
        pgp == [e.production.pg EXCEPT !.text = DumpOf(db["production"])]
        env == [e EXCEPT !.local.pg = pgl, !.production.pg = pgp]
        out == main(files, manifest, db, blobs, now, args, env)
    IN  /\ Runs < MaxRuns
        /\ Cardinality(DOMAIN out.files) <= MaxFiles
        /\ Len(_load_manifest(out.manifest).backups) <= MaxBackups
        /\ files' = out.files
        /\ manifest' = out.manifest
        /\ db' = out.db
        /\ blobs' = out.blobs
        /\ last' = [op |-> "main",
                    \* history: how many runs there have been
                    call |-> [run |-> Runs + 1] @@ args,
                    result |-> out.result]
        /\ UNCHANGED <<now, proc>>

CliArgs(paths) ==
    { a \in [flags : CliFlagSets, json : BOOLEAN, path : paths, target : Targets] :
        /\ Branch(a.flags) \notin {"restore", "verify"} => a.path = MissingPath
        /\ Branch(a.flags) \notin {"restore", "restore_latest"} => a.target = "local" }

\* the runs of the command line
NextCli ==
    /\ Runs < MaxRuns
    /\ \E args \in CliArgs(Paths) : \E e \in EnvsFor(Branch(args.flags)) : Main(args, e)

\* files main finds: a local and a production backup, and a local .sql file
CliSeeds ==
    { Seed("local", At(178, 0), GzSfx, Gzip(DumpText), TRUE),
      Dated("production", 165, 8),
      Seed("local", At(178, 10), SqlSfx, Plain(DumpText), TRUE) }

InitCli == InitWith(UpTo(CliSeeds, MaxSeed), {MissingManifest})

SpecCli == InitCli /\ [][NextCli]_vars

\* the status reports, between backups that succeed, cleanups and the clock
NextStatus ==
    \/ Status
    \/ TickStatus
    \/ Cleanup
    \/ BackupLocal([docker |-> "listed", pg |-> OkDump])
    \/ BackupProduction([url |-> TRUE, pg |-> OkDump])

SpecStatus == InitRetention /\ [][NextStatus]_vars

\* the directory and the manifest two local dumps have left, of Sunday 05-19
\* and of Wednesday 05-29
PastRuns ==
    LET o1 == backup_local_db(Dir({}), MissingManifest, At(139, 8), "listed", OkDump)
    IN  backup_local_db(o1.files, o1.manifest, At(149, 8), "listed", OkDump)

InitHistory ==
    /\ now = StartTime
    /\ \/ files = Dir({}) /\ manifest = MissingManifest
       \/ files = PastRuns.files /\ manifest = PastRuns.manifest
    /\ db = [t \in Targets |-> "initial"]
    /\ blobs = <<>>
    /\ proc = NoProcs
    /\ last = NoCall

\* the calls of the history: each operation ending well, and failing once
HistoryDumps == { pg \in PgDumpOutcomes : pg.rc \in {"ok", "nonzero"} /\ pg.wrote }
HistoryRestores == { c \in RestoreCalls : c.target = "local" /\ c.psql \in {"ok", "missing"} }
HistoryUploads == { c \in UploadCalls : c.az = "ok" }

\* every operation: dumps, cleanup, verify, restore and upload
NextHistory ==
    \/ Cleanup
    \/ \E pg \in HistoryDumps : BackupLocal([docker |-> "listed", pg |-> pg])
    \/ \E pg \in HistoryDumps : BackupProduction([url |-> TRUE, pg |-> pg])
    \/ \E path \in Paths : Verify(path)
    \/ \E path \in Paths, c \in HistoryRestores : Restore(path, c)
    \/ \E path \in Paths, c \in HistoryUploads : Upload(path, c)

SpecHistory == InitHistory /\ [][NextHistory]_vars

\* the statements of a dump and of a cleanup, one at a time

\* a faulty variant of Then: the manifest updated as soon as the file is compressed
Then_hasty(pc) ==
    CASE pc = "dump" -> "compress"
      [] pc = "compress" -> "load"
      [] pc = "unlink" -> "hash"
      [] pc = "hash" -> "load"
      [] pc = "scan" -> "load"
      [] pc = "load" -> "save"
      [] OTHER -> "done"

\* the statement that follows, in a dump and in a cleanup that raise nothing
Then(pc) ==
    CASE pc = "dump" -> "compress"
      [] pc = "compress" -> "unlink"
      [] pc = "unlink" -> "hash"
      [] pc = "hash" -> "load"
      [] pc = "scan" -> "load"
      [] pc = "load" -> "save"
      [] OTHER -> "done"

\* proc[p] has executed the statement it stood before and moves on
Moved(p) ==
    [proc EXCEPT ![p].pc = Then(@), ![p].steps = Append(@, proc[p].pc)]

\* an exception leaves the try block: the invocation returns status error
Failed(p, err) ==
    [proc EXCEPT ![p].pc = "done", ![p].steps = Append(@, proc[p].pc),
                 ![p].result = BackupError(TypeOf(proc[p].op), proc[p].t, err)]

dump_file(p) == Name(TypeOf(proc[p].op), proc[p].t, SqlSfx)
gz_file(p) == Name(TypeOf(proc[p].op), proc[p].t, GzSfx)

\* the invocation starts and reads the clock
Enter(p, op) ==
    /\ proc[p].pc = "idle"
    /\ proc' = [proc EXCEPT ![p] = [Idle EXCEPT
                   !.pc = IF op = "cleanup" THEN "scan" ELSE "dump",
                   !.op = op, !.t = now]]
    /\ UNCHANGED <<now, files, manifest, db, blobs, last>>

\* pg_dump -f dump_file
StepDump(p) ==
    /\ proc[p].pc = "dump"
    /\ files' = Put(files, dump_file(p),
                    File(Plain(DumpOf(db[TypeOf(proc[p].op)])), now))
    /\ proc' = Moved(p)
    /\ UNCHANGED <<now, manifest, db, blobs, last>>

\* shutil.copyfileobj(f_in, f_out) into gzip.open(gz_file, "wb")
StepCompress(p) ==
    /\ proc[p].pc = "compress"
    /\ IF dump_file(p) \in DOMAIN files
       THEN /\ files' = Put(files, gz_file(p),
                            File(Gzip(files[dump_file(p)].data.text), now))
            /\ proc' = Moved(p)
       ELSE /\ files' = files
            /\ proc' = Failed(p, "pg_dump not found")
    /\ UNCHANGED <<now, manifest, db, blobs, last>>

\* dump_file.unlink()
StepUnlink(p) ==
    /\ proc[p].pc = "unlink"
    /\ IF dump_file(p) \in DOMAIN files
       THEN /\ files' = Remove(files, dump_file(p))
            /\ proc' = Moved(p)
       ELSE /\ files' = files
            /\ proc' = Failed(p, "pg_dump not found")
    /\ UNCHANGED <<now, manifest, db, blobs, last>>

\* sha = _sha256(str(gz_file))
StepHash(p) ==
    /\ proc[p].pc = "hash"
    /\ IF gz_file(p) \in DOMAIN files
       THEN proc' = [Moved(p) EXCEPT
                        ![p].sha = <<Sha256(files[gz_file(p)].data)>>,
                        ![p].result = [BackupBase(TypeOf(proc[p].op), proc[p].t) EXCEPT
                            !.file = <<gz_file(p)>>,
                            !.sha256 = <<Sha256(files[gz_file(p)].data)>>,
                            !.size_bytes = <<Size(files[gz_file(p)].data)>>]]
       ELSE proc' = Failed(p, "pg_dump not found")
    /\ UNCHANGED <<now, files, manifest, db, blobs, last>>

\* the for loop of cleanup_old_backups
StepScan(p) ==
    /\ proc[p].pc = "scan"
    /\ files' = CleanupLoop(Sorted(GlobBackups(files)), proc[p].t,
                            [files |-> files, kept |-> <<>>, removed |-> <<>>]).files
    /\ proc' = Moved(p)
    /\ UNCHANGED <<now, manifest, db, blobs, last>>

\* a faulty variant of Loaded: the manifest is started afresh
Loaded_afresh(man) == FreshManifest

\* manifest = _load_manifest()
Loaded(man) == _load_manifest(man)

StepLoad(p) ==
    /\ proc[p].pc = "load"
    /\ proc' = [Moved(p) EXCEPT ![p].m = Loaded(manifest), ![p].seen = manifest]
    /\ UNCHANGED <<now, files, manifest, db, blobs, last>>

\* what the invocation writes over MANIFEST_FILE: the manifest it loaded,
\* with its own record and timestamp, or its last_cleanup, put in
Saved(p) ==
    IF proc[p].op = "cleanup"
    THEN _save_manifest([proc[p].m EXCEPT !.last_cleanup = <<proc[p].t>>])
    ELSE _save_manifest(
             [Stamp(proc[p].m, TypeOf(proc[p].op), now) EXCEPT
                 !.backups = Append(@, [proc[p].result EXCEPT !.status = "success"])])

\* manifest["backups"].append(result) ... _save_manifest(manifest), and return
StepSave(p) ==
    /\ proc[p].pc = "save"
    /\ manifest' = Saved(p)
    /\ proc' = [Moved(p) EXCEPT
                    ![p].result.status = IF proc[p].op = "cleanup" THEN @ ELSE "success"]
    /\ UNCHANGED <<now, files, db, blobs, last>>

NextSteps ==
    \E p \in Procs :
        \/ \E op \in OpsOf(p) : Enter(p, op)
        \/ StepDump(p)
        \/ StepCompress(p)
        \/ StepUnlink(p)
        \/ StepHash(p)
        \/ StepScan(p)
        \/ StepLoad(p)
        \/ StepSave(p)

SpecSteps == InitHistory /\ [][NextSteps]_vars

\* the calls that are given a secret, with tools that fail and quote it
NextSecrets ==
    \/ \E c \in ProductionBackupInputs(Stderrs(db_url)) : BackupProduction(c)
    \/ \E path \in Paths, c \in RestoreInputs(Stderrs(db_url)) :
          c.target = "production" /\ Restore(path, c)
    \/ \E path \in Paths, c \in UploadInputs(Stderrs(conn_str)) : Upload(path, c)

SpecSecrets == Init /\ [][NextSecrets]_vars

----------------------------------------------------------------------------
(* Retention: the claims about cleanup_old_backups *)

\* the whole number of days from mtime to t
WholeDays(t, mtime) ==
    CHOOSE k \in 0..366 : k * 24 <= t - mtime /\ t - mtime < (k + 1) * 24

\* 2024-01-07 was a Sunday
OnSunday(mtime) == \E w \in 0..52 : mtime \div 24 = 6 + 7 * w

\* the days of 2024 that are the 1st of a month, counted from 01-01
OnFirstOfMonth(mtime) ==
    mtime \div 24 \in {0, 31, 60, 91, 121, 152, 182, 213, 244, 274, 305, 335}

\* the three buckets, first match first
InABucket(mtime, t) ==
    IF OnFirstOfMonth(mtime) /\ WholeDays(t, mtime) <= 180 THEN TRUE
    ELSE IF OnSunday(mtime) /\ WholeDays(t, mtime) <= 56 THEN TRUE
    ELSE WholeDays(t, mtime) <= 14

\* C1: a cleanup run keeps, untouched, every file matching peptide_*.sql.gz
\* that is in the monthly bucket (1st of the month, at most 180 days old),
\* else in the weekly bucket (Sunday, at most 56 days), else in the daily
\* bucket (at most 14 days), deletes every other file matching the pattern,
\* reports the age in whole days of each file it deletes, and touches no
\* file that does not match the pattern.
C1_FirstMatchingBucket ==
    [][Cleanup =>
        /\ \A n \in DOMAIN files :
              /\ MatchesGlob(n) =>
                    (n \in DOMAIN files' <=> InABucket(files[n].mtime, now))
              /\ ~MatchesGlob(n) => n \in DOMAIN files'
              /\ n \in DOMAIN files' => files'[n] = files[n]
        /\ DOMAIN files' \subseteq DOMAIN files
        /\ last'.result.removed = Cardinality(DOMAIN files \ DOMAIN files')
        /\ last'.result.kept = Cardinality(GlobBackups(files'))
        /\ \A i \in 1..Len(last'.result.removed_files) :
              LET r == last'.result.removed_files[i]
              IN  /\ r.name \in DOMAIN files \ DOMAIN files'
                  /\ r.age_days = WholeDays(now, files[r.name].mtime)
      ]_vars

\* the scenario of C1: of the files 40 days old (a Sunday), 10 days old, 0
\* days old and 100 days old, the run has removed the last one only
C1_Witness ==
    /\ last.op = "cleanup"
    /\ last.call.at = StartTime
    /\ now = StartTime
    /\ last.result.kept = 3
    /\ last.result.removed = 1
    /\ last.result.removed_files[1].name = Name("local", At(79, 8), GzSfx)
    /\ last.result.removed_files[1].age_days = 100
    /\ DOMAIN files = { Name("local", At(139, 8), GzSfx),
                        Name("local", At(169, 8), GzSfx),
                        Name("local", At(179, 8), GzSfx) }

\* C2 as the spec states it: a cleanup run that directly follows a cleanup
\* run, no file created in between, deletes nothing.
C2_SecondRunDeletesNothing ==
    [][(Cleanup /\ last.op = "cleanup") => last'.result.removed = 0]_vars

\* C2: a cleanup run that directly follows a cleanup run, no file created in
\* between, deletes nothing and changes no file, provided no backup file's
\* age in whole days differs between the two evaluation times.
C2_SecondRunSameAges ==
    [][(/\ Cleanup
        /\ last.op = "cleanup"
        /\ \A n \in GlobBackups(files) :
              WholeDays(now, files[n].mtime) = WholeDays(last.call.at, files[n].mtime))
       => (last'.result.removed = 0 /\ files' = files)]_vars

\* a second run, 20 hours after the first, has kept the three files the
\* first one had kept
C2_Witness ==
    /\ last.op = "cleanup"
    /\ last.call.after = <<StartTime>>
    /\ last.call.at = StartTime + 20
    /\ manifest.last_cleanup = <<last.call.at>>
    /\ last.result.removed = 0
    /\ last.result.kept = 3
    /\ DOMAIN files = { Name("local", At(139, 8), GzSfx),
                        Name("local", At(169, 8), GzSfx),
                        Name("local", At(179, 8), GzSfx) }

\* C3: a cleanup run keeps, untouched, every backup file at most 14 days
\* old, whatever the weekday and the day of the month of its mtime.
C3_DailyWindowKept ==
    [][Cleanup =>
        \A n \in GlobBackups(files) :
            WholeDays(now, files[n].mtime) <= 14 =>
                (n \in DOMAIN files' /\ files'[n] = files[n])]_vars

\* a run has kept a file exactly 14 days old, of a Friday the 14th
C3_Witness ==
    /\ last.op = "cleanup"
    /\ last.call.at = now
    /\ \E n \in GlobBackups(files) :
          /\ WholeDays(now, files[n].mtime) = 14
          /\ ~OnSunday(files[n].mtime)
          /\ ~OnFirstOfMonth(files[n].mtime)

----------------------------------------------------------------------------
(* The claims about verify_backup *)

InSteps(step, result) == \E i \in 1..Len(result.steps) : result.steps[i] = step

\* C4: verify_backup on a file of exactly 0 bytes returns status error, and
\* has neither hashed the file nor read its content.
C4_EmptyFileIsError ==
    [][\A path \in DOMAIN files :
          (Verify(path) /\ Size(files[path].data) = 0)
          => /\ last'.result.status = "error"
             /\ last'.result.sha256 = <<>>
             /\ ~InSteps("sha256", last'.result)
             /\ ~InSteps("gunzip", last'.result)]_vars

\* verify_backup has returned error for a file of 0 bytes that is there
C4_Witness ==
    /\ last.op = "verify"
    /\ last.call.path \in DOMAIN files
    /\ files[last.call.path].data = Plain(<<>>)
    /\ last.result.status = "error"
    /\ last.result.size_bytes = <<0>>

\* the lines verify_backup reads of a text: the first eleven
LinesRead(text) == { text[i] : i \in 1..(IF Len(text) < 11 THEN Len(text) ELSE 11) }

\* the file cannot be opened, or is named .gz and what verify_backup reads
\* of it is no gzip stream or ends before eleven lines and the end marker
Unreadable(path, f) ==
    \/ ~f.readable
    \/ /\ EndsWithGz(path)
       /\ \/ f.data.fmt # "gz"
          \/ f.data.trunc /\ Len(f.data.text) < 11

\* C5: verify_backup returns error exactly for a file that is missing, empty
\* or unreadable; for a file that is there, not empty, readable and named
\* .gz it returns verified when one of the five markers is among the first
\* lines read of the decompressed text, and warning when none is.
C5_Verdict ==
    [][\A path \in Paths :
          Verify(path) =>
            LET absent == path \notin DOMAIN files
                f      == files[path]
                status == last'.result.status
            IN  /\ status \in {"error", "verified", "warning"}
                /\ status = "error" <=>
                      (absent \/ Size(f.data) = 0 \/ Unreadable(path, f))
                /\ (~absent /\ Size(f.data) > 0 /\ ~Unreadable(path, f)
                            /\ EndsWithGz(path))
                   => LET found == LinesRead(f.data.text) \cap
                                     {"PostgreSQL", "CREATE TABLE", "INSERT INTO",
                                      "pg_dump", "SET statement_timeout"} # {}
                      IN  /\ found => status = "verified"
                          /\ ~found => status = "warning"]_vars

\* verify_backup has returned warning for a gzip file whose only marker is
\* on its twelfth line
C5_Witness ==
    /\ last.op = "verify"
    /\ last.result.status = "warning"
    /\ last.call.path \in DOMAIN files
    /\ LET text == files[last.call.path].data.text
       IN  Len(text) = 12 /\ text[12] = "INSERT INTO"

\* C6: verify_backup changes nothing: no file of the directory (the verified
\* one included), not the manifest, not a database.
C6_VerifyChangesNothing ==
    [][\A path \in Paths :
          Verify(path) => (files' = files /\ manifest' = manifest /\ db' = db)]_vars

\* verify_backup has verified a backup that a backup run wrote and recorded
C6_Witness ==
    /\ last.op = "verify"
    /\ last.result.status = "verified"
    /\ manifest.kind = "json"
    /\ \E i \in 1..Len(manifest.backups) :
          manifest.backups[i].file = <<last.call.path>>

----------------------------------------------------------------------------
(* The claims about restore_from_backup *)

\* C7: after restore_from_backup of a .gz file has decompressed it, the
\* temporary .sql file is gone, whatever the outcome.
C7_TempFileRemoved ==
    (last.op = "restore" /\ InSteps("gunzip", last.result))
        => WithoutSuffix(last.call.path) \notin DOMAIN files

\* C8: restore_from_backup with target production and no production URL
\* returns status error, has not run psql, and leaves the databases as they
\* were.
C8_NoUrlNoRestore ==
    [][\A path \in Paths, c \in RestoreCalls :
          (c.target = "production" /\ ~c.url /\ Restore(path, c))
          => /\ last'.result.status = "error"
             /\ ~InSteps("psql", last'.result)
             /\ db' = db]_vars

\* a restore to production of a file that is there has ended on the missing URL
C8_Witness ==
    /\ last.op = "restore"
    /\ last.call.target = "production"
    /\ ~last.call.url
    /\ last.call.path \in DOMAIN files
    /\ last.result.error = <<"Production DATABASE_URL not found">>

\* C9: restore_from_backup on a path that does not exist returns status
\* error and has done nothing: no file created or changed, no psql run, the
\* manifest and the databases as they were.
C9_MissingFileNoEffect ==
    [][\A path \in Paths, c \in RestoreCalls :
          (path \notin DOMAIN files /\ Restore(path, c))
          => /\ last'.result.status = "error"
             /\ last'.result.steps = <<>>
             /\ files' = files
             /\ manifest' = manifest
             /\ db' = db]_vars

\* a restore of the missing path has returned, in a directory that holds a file
C9_Witness ==
    /\ last.op = "restore"
    /\ last.call.path \notin DOMAIN files
    /\ last.result.error = <<"File not found">>
    /\ files # <<>>

\* a gzip file that is whole and holds none of the markers
WholeUnmarked(path, f) ==
    /\ EndsWithGz(path)
    /\ f.readable
    /\ f.data.fmt = "gz"
    /\ ~f.data.trunc
    /\ \A i \in 1..Len(f.data.text) : f.data.text[i] \notin Markers

\* C10: for a whole gzip backup whose text holds no marker, verify_backup
\* returns warning, and restore_from_backup with a resolved target
\* decompresses it and runs psql on it all the same.
C10_RestoreIgnoresVerifier ==
    [][\A path \in DOMAIN files :
          WholeUnmarked(path, files[path]) =>
            /\ Verify(path) => last'.result.status = "warning"
            /\ \A c \in RestoreCalls :
                  (Restore(path, c) /\ (c.target = "local" \/
                                        (c.target = "production" /\ c.url)))
                  => /\ InSteps("gunzip", last'.result)
                     /\ InSteps("psql", last'.result)
                     /\ c.psql = "ok" => last'.result.status = "restored"
                     /\ c.psql # "missing" => db'[c.target] = "written"]_vars

\* a backup without a marker has been restored into the local database
C10_Witness ==
    /\ last.op = "restore"
    /\ last.result.status = "restored"
    /\ last.call.target = "local"
    /\ db["local"] = "written"
    /\ last.call.path \in DOMAIN files
    /\ WholeUnmarked(last.call.path, files[last.call.path])
    /\ verify_backup(files, last.call.path).status = "warning"

----------------------------------------------------------------------------
(* The claims about the manifest *)

\* the last step was a dump of the type, ended with the status
Dumped(type, status) ==
    /\ last'.op = (IF type = "local" THEN "backup_local" ELSE "backup_production")
    /\ last' # last
    /\ last'.result.status = status

\* C11: last_local changes only in a successful backup_local_db, which sets
\* it to the time of the run, and last_production only in a successful
\* backup_production_db; a dump that ends with status error leaves the
\* manifest, both timestamps included, as it was.
C11_TimestampsOnSuccessOnly ==
    [][/\ manifest'.last_local # manifest.last_local => Dumped("local", "success")
       /\ manifest'.last_production # manifest.last_production
             => Dumped("production", "success")
       /\ (\E c \in LocalBackupCalls : BackupLocal(c)) =>
             IF last'.result.status = "success"
             THEN manifest'.last_local = <<now>>
             ELSE last'.result.status = "error" /\ manifest' = manifest
       /\ (\E c \in ProductionBackupCalls : BackupProduction(c)) =>
             IF last'.result.status = "success"
             THEN manifest'.last_production = <<now>>
             ELSE last'.result.status = "error" /\ manifest' = manifest]_vars

\* a production dump has failed after a successful local dump: last_local
\* is set, last_production is not
C11_Witness ==
    /\ last.op = "backup_production"
    /\ last.result.status = "error"
    /\ manifest.kind = "json"
    /\ manifest.last_local = <<now>>
    /\ manifest.last_production = <<>>
    /\ Len(manifest.backups) = 1

\* MANIFEST_FILE is missing or holds no JSON
Unloadable(m) == m.kind \in {"missing", "corrupt"}

\* C13: a manifest file that is missing or corrupt loads as the fresh empty
\* manifest, and a successful backup or a cleanup that finds such a file
\* returns its result and leaves a well-formed manifest: the fresh one with
\* the record and the timestamp of the backup, or with last_cleanup.
C13_UnloadableManifestIsFresh ==
    [][Unloadable(manifest) =>
        /\ _load_manifest(manifest) = FreshManifest
        /\ ((\E c \in LocalBackupCalls : BackupLocal(c))
                /\ last'.result.status = "success")
           => manifest' = [FreshManifest EXCEPT !.backups = <<last'.result>>,
                                               !.last_local = <<now>>]
        /\ ((\E c \in ProductionBackupCalls : BackupProduction(c))
                /\ last'.result.status = "success")
           => manifest' = [FreshManifest EXCEPT !.backups = <<last'.result>>,
                                               !.last_production = <<now>>]
        /\ Cleanup => /\ manifest' = [FreshManifest EXCEPT !.last_cleanup = <<now>>]
                      /\ last'.result.kept + last'.result.removed
                            = Cardinality(GlobBackups(files))]_vars

\* a cleanup has found a corrupt manifest and left a well-formed one
C13_Witness ==
    /\ last.op = "cleanup"
    /\ last.call.found = "corrupt"
    /\ manifest = [FreshManifest EXCEPT !.last_cleanup = <<now>>]

\* C19: after a cleanup run the manifest's last_cleanup is the time of the
\* run, whether files were removed or not, and every other field of the
\* manifest is as the run loaded it.
C19_LastCleanupAlwaysSet ==
    [][Cleanup =>
        /\ manifest'.kind = "json"
        /\ manifest'.last_cleanup = <<now>>
        /\ manifest' = [_load_manifest(manifest) EXCEPT !.last_cleanup = <<now>>]
        /\ manifest'.backups = _load_manifest(manifest).backups
        /\ manifest'.last_local = _load_manifest(manifest).last_local
        /\ manifest'.last_production = _load_manifest(manifest).last_production]_vars

\* a run that removed nothing has set last_cleanup in a manifest that holds
\* a backup record and an earlier cleanup
C19_Witness ==
    /\ last.op = "cleanup"
    /\ last.result.removed = 0
    /\ last.call.after # <<>>
    /\ last.call.after # <<now>>
    /\ manifest.last_cleanup = <<now>>
    /\ Len(manifest.backups) = 1
    /\ manifest.last_local # <<>>

\* C20: a dump attempt that finds no pg_dump returns status error, creates
\* no file (no .sql and no .sql.gz of its timestamp unless it was there
\* before) and leaves the manifest as it was.
C20_MissingToolLeavesNothing ==
    [][/\ \A c \in LocalBackupCalls :
             (c.pg.rc = "missing" /\ BackupLocal(c)) =>
                 /\ last'.result.status = "error"
                 /\ files' = files
                 /\ manifest' = manifest
       /\ \A c \in ProductionBackupCalls :
             (c.pg.rc = "missing" /\ BackupProduction(c)) =>
                 /\ last'.result.status = "error"
                 /\ files' = files
                 /\ manifest' = manifest]_vars

\* a production dump has found no pg_dump, in a directory that holds
\* neither a .sql nor a .sql.gz file of its timestamp
C20_Witness ==
    /\ last.op = "backup_production"
    /\ last.call.url
    /\ last.call.pg.rc = "missing"
    /\ last.result.status = "error"
    /\ last.result.timestamp = now
    /\ Name("production", now, SqlSfx) \notin DOMAIN files
    /\ Name("production", now, GzSfx) \notin DOMAIN files

\* C18: the sha256 of every record of a successful dump is the hash of the
\* file the record names, as long as that file exists.
C18_HashStable ==
    manifest.kind = "json" =>
        \A i \in 1..Len(manifest.backups) :
            LET record == manifest.backups[i]
            IN  (record.status = "success" /\ record.file[1] \in DOMAIN files)
                => record.sha256 = <<Sha256(files[record.file[1]].data)>>

----------------------------------------------------------------------------
(* The claims about error results *)

\* the text holds the secret or one of its halves
Leaks(text, secret) ==
    \E i \in 1..Len(text), j \in 1..Len(secret) : text[i] = secret[j]

\* C12: no error result of backup_production_db, of restore_from_backup
\* with target production or of upload_to_azure holds the production URL or
\* the Azure connection string, whole or in part, in its error field.
C12_NoSecretInError ==
    (/\ last.op \in {"backup_production", "restore", "upload"}
     /\ "status" \in DOMAIN last.result
     /\ last.result.status = "error")
    => (~Leaks(last.result.error, db_url) /\ ~Leaks(last.result.error, conn_str))

\* C14: every call returns a result that carries a status field, whatever
\* the outcome, and no call ends in an exception.
C14_StatusInEveryResult ==
    last.op # "none" =>
        ("status" \in DOMAIN last.result /\ "raised" \notin DOMAIN last.result)

----------------------------------------------------------------------------
(* The claims about get_status *)

LocalBackupFiles == { n \in GlobBackups(files) : n.kind = "local" }

\* there is a local backup file, and the most recent one is more than 24
\* hours old
LatestLocalOverADay ==
    /\ LocalBackupFiles # {}
    /\ \A n \in LocalBackupFiles : now - files[n].mtime > 24

\* C17: get_status reports CRITICAL exactly when no backup file exists,
\* WARNING exactly when one exists and the most recent local backup file is
\* more than 24 hours old, and OK otherwise.
C17_Health ==
    [][Status =>
        LET health == last'.result.health
        IN  /\ health \in {"CRITICAL", "WARNING", "OK"}
            /\ health = "CRITICAL" <=> GlobBackups(files) = {}
            /\ health = "WARNING" <=> (GlobBackups(files) # {} /\ LatestLocalOverADay)
            /\ last'.result.counts.total = Cardinality(GlobBackups(files))]_vars

\* WARNING is reported 25 hours after a successful local dump, its file
\* still the most recent local one
C17_Witness ==
    /\ last.op = "status"
    /\ last.result.health = "WARNING"
    /\ manifest.last_local = <<now - 25>>
    /\ Name("local", now - 25, GzSfx) \in DOMAIN files
    /\ last.result.local_hours_ago = <<25>>

----------------------------------------------------------------------------
(* The claims about main *)

\* the printed lines that bear the label
Printed(result, label) ==
    { i \in 1..Len(result.printed) : result.printed[i].label = label }

\* how often the function was called in the run
Called(result, function) ==
    Cardinality({ i \in 1..Len(result.calls) : result.calls[i] = function })

\* C15: a run of --all calls backup_local_db and then backup_production_db
\* whatever the first returned, reports both, uploads and reports the local
\* backup exactly when the local dump succeeded and the production backup
\* exactly when the production dump succeeded, and ends with the completion
\* message and exit status 0.
C15_AllRunsThrough ==
    (last.op = "main" /\ Branch(last.call.flags) = "all") =>
        LET r == last.result
            p == r.printed
        IN  /\ r.exit = 0
            /\ Len(p) >= 4
            /\ p[1].label = "Running full backup cycle..."
            /\ p[2].label = "Local" /\ p[2].value \in {"success", "error"}
            /\ p[3].label = "Production" /\ p[3].value \in {"success", "error"}
            /\ p[Len(p)].label = "Full backup cycle complete."
            /\ SubSeq(r.calls, 1, 2) = <<"backup_local_db", "backup_production_db">>
            /\ Printed(r, "Azure (local)") # {} <=> p[2].value = "success"
            /\ Printed(r, "Azure (prod)") # {} <=> p[3].value = "success"
            /\ Called(r, "upload_to_azure")
                 = Cardinality(Printed(r, "Azure (local)") \cup Printed(r, "Azure (prod)"))

\* a run of --all in which the local dump failed: the production dump was
\* made, uploaded and reported, and the run completed
C15_Witness ==
    /\ last.op = "main"
    /\ Branch(last.call.flags) = "all"
    /\ last.result.printed[2] = Line(FALSE, "Local", "error")
    /\ last.result.printed[3] = Line(FALSE, "Production", "success")
    /\ last.result.printed[4] = Line(FALSE, "Azure (prod)", "uploaded")
    /\ last.result.printed[5].label = "Full backup cycle complete."
    /\ Name("production", now, GzSfx) \in DOMAIN blobs

----------------------------------------------------------------------------
(* The claims about the records of the manifest *)

\* the records the program reads from MANIFEST_FILE
Records(m) == _load_manifest(m).backups

\* the last step was a dump, of either type
DumpAttempted ==
    /\ last'.op \in {"backup_local", "backup_production"}
    /\ last' # last

\* C21: every dump attempt, ended with status success or status error, adds
\* its result as a record to the manifest's backups list, and the records
\* that were there stay as they were.
C21_EveryAttemptRecorded ==
    [][DumpAttempted =>
          /\ Records(manifest') = Append(Records(manifest), last'.result)
          /\ last'.result.status \in {"success", "error"}]_vars

\* C27: a dump attempt that returns status error leaves the backup
\* directory as it was: no .sql and no .sql.gz file of the attempt is left.
C27_FailedDumpLeavesNothing ==
    [][(DumpAttempted /\ last'.result.status = "error") => files' = files]_vars

\* C28: a successful dump writes a .sql.gz file of a name no file in the
\* directory had before: it never overwrites the file of an earlier dump.
C28_DumpsYieldDistinctFiles ==
    [][(DumpAttempted /\ last'.result.status = "success") =>
          /\ last'.result.file[1] \notin DOMAIN files
          /\ \A n \in DOMAIN files : n \in DOMAIN files' /\ files'[n] = files[n]]_vars

----------------------------------------------------------------------------
(* The claim about the docker check *)

\* C29: whatever the docker check of backup_local_db yields, pg_dump is run
\* and decides the result: the dump succeeds when pg_dump ends well, and an
\* error that names pg_dump as missing or timed out is returned only when
\* pg_dump itself was missing or timed out.
C29_DockerCheckAdvisory ==
    last.op = "backup_local" =>
        /\ last.call.pg.rc = "ok" => last.result.status = "success"
        /\ last.result.error = <<"pg_dump not found">> => last.call.pg.rc = "missing"
        /\ last.result.error = <<"pg_dump timed out">> => last.call.pg.rc = "timeout"

----------------------------------------------------------------------------
(* The claim about the operations of one run *)

\* the functions that dump, upload, restore and clean up
Operations ==
    {"backup_local_db", "backup_production_db", "upload_to_azure",
     "restore_from_backup", "cleanup_old_backups"}

\* how many dumps the run made
Dumps(result) ==
    Called(result, "backup_local_db") + Called(result, "backup_production_db")

\* how many operations the run made
Operated(result) ==
    Cardinality({ i \in 1..Len(result.calls) : result.calls[i] \in Operations })

\* C25 as the specification words it: a run of main makes at most one
\* dump, at most one upload, at most one restore and at most one cleanup.
C25_AtMostOneOfEach ==
    last.op = "main" =>
        /\ Dumps(last.result) <= 1
        /\ Called(last.result, "upload_to_azure") <= 1
        /\ Called(last.result, "restore_from_backup") <= 1
        /\ Called(last.result, "cleanup_old_backups") <= 1

\* C25: a run of main that does not take the --all branch makes at most one
\* operation in all (one dump, or one upload, or one restore, or one
\* cleanup); a run of --all makes exactly one local and one production
\* dump, at most one upload per successful dump, no restore and no cleanup.
C25_OneOperationUnlessAll ==
    last.op = "main" =>
        LET r == last.result
        IN  IF Branch(last.call.flags) = "all"
            THEN /\ Called(r, "backup_local_db") = 1
                 /\ Called(r, "backup_production_db") = 1
                 /\ Called(r, "upload_to_azure") <= 2
                 /\ Called(r, "restore_from_backup") = 0
                 /\ Called(r, "cleanup_old_backups") = 0
            ELSE Operated(r) <= 1

\* a run of --all has made two dumps and two uploads
C25_Witness ==
    /\ last.op = "main"
    /\ Branch(last.call.flags) = "all"
    /\ Dumps(last.result) = 2
    /\ Called(last.result, "upload_to_azure") = 2
    /\ Operated(last.result) = 4

----------------------------------------------------------------------------
(* The claim about the files a restore leaves alone *)

\* C30: restore_from_backup leaves every file that was in the directory
\* before the call in the directory, with the content it had: the input
\* file, compressed or not, and every other file.
C30_RestoreKeepsFiles ==
    [][(last'.op = "restore" /\ last' # last) =>
          \A n \in DOMAIN files :
              /\ n \in DOMAIN files'
              /\ files'[n].data = files[n].data]_vars

----------------------------------------------------------------------------
(* The claims about the history of the manifest and of the latest file *)

\* the first sequence is the beginning of the second
IsPrefix(s, t) == Len(s) <= Len(t) /\ SubSeq(t, 1, Len(s)) = s

\* C22: the backups list of the manifest is append-only: whatever operation
\* runs (dump, cleanup, restore, verify, upload), the records the manifest
\* held before it are the first records of the manifest after it, unchanged
\* and in the same order; a cleanup that deletes a file leaves its record.
C22_RecordsAppendOnly ==
    [][IsPrefix(Records(manifest), Records(manifest'))]_vars

\* a cleanup has deleted the file of the second record, and both records
\* are in the manifest
C22_Witness ==
    /\ last.op = "cleanup"
    /\ last.result.removed = 1
    /\ Len(Records(manifest)) = 2
    /\ Records(manifest)[2].status = "success"
    /\ Records(manifest)[2].file[1] \notin DOMAIN files
    /\ Records(manifest)[1].file[1] \in DOMAIN files

\* the modification time of the file get_latest_backup returns
LatestTime(fs, backup_type) ==
    LET latest == get_latest_backup(fs, backup_type)
    IN  IF latest = <<>> THEN <<>> ELSE <<fs[latest[1]].mtime>>

\* C24: get_latest_backup returns the file of the type with the greatest
\* modification time, and from one operation to the next the latest file of
\* a type never becomes an older one.
C24_LatestNeverOlder ==
    [][\A backup_type \in Targets :
          /\ \A n \in DOMAIN files :
                MatchesType(n, backup_type)
                    => files[n].mtime <= LatestTime(files, backup_type)[1]
          /\ (LatestTime(files, backup_type) # <<>>
                /\ LatestTime(files', backup_type) # <<>>)
             => LatestTime(files', backup_type)[1] >= LatestTime(files, backup_type)[1]]_vars

----------------------------------------------------------------------------
(* The claims about invocations that run side by side *)

\* the step is the write of MANIFEST_FILE by the invocation
Saves(p) == proc[p].pc = "save" /\ proc'[p].pc = "done"

\* the invocation has returned from a dump with status success
DumpedWell(p) ==
    /\ proc[p].pc = "done"
    /\ proc[p].op \in {"backup_local", "backup_production"}
    /\ proc[p].result.status = "success"

\* C23: nothing locks the manifest, and an invocation writes the whole file
\* from the copy it loaded: what another invocation saved between the load
\* and the save is lost. When the file did not change in between, the save
\* keeps every record and every timestamp and adds its own.
C23_LostOnlyByInterleaving ==
    [][\A p \in Procs : Saves(p) =>
          /\ proc[p].op = "cleanup" =>
                /\ manifest'.last_cleanup = <<proc[p].t>>
                /\ manifest = proc[p].seen =>
                      /\ Records(manifest') = Records(manifest)
                      /\ manifest'.last_local = _load_manifest(manifest).last_local
                      /\ manifest'.last_production
                            = _load_manifest(manifest).last_production
          /\ proc[p].op # "cleanup" =>
                /\ Records(manifest')[Len(Records(manifest'))] = proc'[p].result
                /\ manifest = proc[p].seen =>
                      /\ IsPrefix(Records(manifest), Records(manifest'))
                      /\ Len(Records(manifest')) = Len(Records(manifest)) + 1
                      /\ manifest'.last_cleanup
                            = _load_manifest(manifest).last_cleanup]_vars

\* both invocations have returned from a dump with status success, and the
\* manifest holds neither the record nor the timestamp of the local one
C23_Witness ==
    /\ DumpedWell(1)
    /\ DumpedWell(2)
    /\ gz_file(1) \in DOMAIN files
    /\ gz_file(2) \in DOMAIN files
    /\ manifest.last_production = <<now>>
    /\ manifest.last_local = <<>>
    /\ \A i \in 1..Len(Records(manifest)) : Records(manifest)[i] # proc[1].result

\* C26: a dump that succeeds has executed dump, compress, unlink, hash and
\* the load of the manifest, in this order, when it writes the manifest: at
\* that moment its .sql.gz file is complete and is the file it hashed, and
\* its .sql file is gone; as long as a dump has not come that far the
\* manifest holds no record of its file.
C26_RecordAfterFile ==
    [][\A p \in Procs : proc'[p].op \in {"backup_local", "backup_production"} =>
          /\ Saves(p) =>
                /\ proc[p].steps = <<"dump", "compress", "unlink", "hash", "load">>
                /\ gz_file(p) \in DOMAIN files
                /\ ~files[gz_file(p)].data.trunc
                /\ proc[p].sha = <<Sha256(files[gz_file(p)].data)>>
                /\ dump_file(p) \notin DOMAIN files
                /\ proc'[p].result.sha256 = proc[p].sha
          /\ proc'[p].pc # "done" =>
                \A i \in 1..Len(Records(manifest')) :
                    Records(manifest')[i].file # <<Name(TypeOf(proc'[p].op), proc'[p].t,
                                                        GzSfx)>>]_vars

\* a local dump has written its record: the record is the last of the
\* manifest, its file is in the directory and the .sql file is not
C26_Witness ==
    /\ DumpedWell(1)
    /\ proc[1].steps = <<"dump", "compress", "unlink", "hash", "load", "save">>
    /\ Records(manifest)[Len(Records(manifest))] = proc[1].result
    /\ proc[1].result.sha256 = <<Sha256(files[gz_file(1)].data)>>
    /\ dump_file(1) \notin DOMAIN files

====
